---- MODULE Spec2Model ----
(***************************************************************************)
(* A model of the VOD stream resolution and clip extraction pipeline of    *)
(* oa3a/vod-to-viral: the extraction service (railway-server.js, both      *)
(* revisions held in the file), the process-clip edge handlers, the        *)
(* rewrite-m3u8 handlers and the time-parsing helpers.                     *)
(*                                                                         *)
(* Conventions.                                                            *)
(*  - A JavaScript string is a sequence of one-character strings.          *)
(*  - A JavaScript number is an integer count of TENTHS (15 is 1.5), so     *)
(*    that Math.floor and fractional time parts are observable; NaN is a    *)
(*    value of its own.  Inputs carry at most one fractional digit.        *)
(*  - A JavaScript value is a record [k, x, s]: its kind, its number (in    *)
(*    tenths) and its characters.                                          *)
(***************************************************************************)
EXTENDS Integers, Sequences, FiniteSets

(***************************************************************************)
(* JavaScript values                                                       *)
(***************************************************************************)
Num(x) == [k |-> "num", x |-> x, s |-> <<>>]

NaN == [k |-> "nan", x |-> 0, s |-> <<>>]

Str(s) == [k |-> "str", x |-> 0, s |-> s]

Undefined == [k |-> "undefined", x |-> 0, s |-> <<>>]

Null == [k |-> "null", x |-> 0, s |-> <<>>]

\* A thrown exception (TypeError, Error) as the outcome of a call.
Throws == [k |-> "throw", x |-> 0, s |-> <<>>]

\* No outcome yet.
Pending == [k |-> "pending", x |-> 0, s |-> <<>>]

\* Whole seconds n as a number.
Secs(n) == Num(n * 10)

IsNum(v) == v.k = "num"

IsInteger(v) == v.k = "num" /\ v.x % 10 = 0

\* !v
Falsy(v) ==
    \/ v.k \in {"undefined", "null", "nan"}
    \/ v.k = "num" /\ v.x = 0
    \/ v.k = "str" /\ v.s = <<>>

\* v == null
IsNullish(v) == v.k \in {"undefined", "null"}

(***************************************************************************)
(* Strings                                                                 *)
(***************************************************************************)
Digits == {"0", "1", "2", "3", "4", "5", "6", "7", "8", "9"}

WhiteSpace == {" ", "\t", "\r"}

DigitVal(c) ==
    CASE c = "0" -> 0 [] c = "1" -> 1 [] c = "2" -> 2 [] c = "3" -> 3
      [] c = "4" -> 4 [] c = "5" -> 5 [] c = "6" -> 6 [] c = "7" -> 7
      [] c = "8" -> 8 [] c = "9" -> 9

\* s.startsWith(p)
StartsWith(s, p) == Len(s) >= Len(p) /\ SubSeq(s, 1, Len(p)) = p

\* s.endsWith(p)
EndsWith(s, p) == Len(s) >= Len(p) /\ SubSeq(s, Len(s) - Len(p) + 1, Len(s)) = p

\* s.includes(p)
Includes(s, p) ==
    \E i \in 1..(Len(s) - Len(p) + 1) : SubSeq(s, i, i + Len(p) - 1) = p

\* s.lastIndexOf(c) + 1: the 1-based place of the last c, 0 when there is none.
LastIndexOf(s, c) ==
    LET at == {i \in 1..Len(s) : s[i] = c}
    IN  IF at = {} THEN 0 ELSE CHOOSE i \in at : \A j \in at : j <= i

\* s.trim()
Trim(s) ==
    LET keep == {i \in 1..Len(s) : s[i] \notin WhiteSpace}
    IN  IF keep = {} THEN <<>>
        ELSE LET lo == CHOOSE i \in keep : \A j \in keep : i <= j
                 hi == CHOOSE i \in keep : \A j \in keep : j <= i
             IN  SubSeq(s, lo, hi)

\* s.split(sep) for a one-character separator: "" gives one empty part.
RECURSIVE Split(_, _)
Split(s, sep) ==
    LET at == {i \in 1..Len(s) : s[i] = sep}
    IN  IF at = {} THEN <<s>>
        ELSE LET i == CHOOSE i \in at : \A j \in at : i <= j
             IN  <<SubSeq(s, 1, i - 1)>> \o Split(SubSeq(s, i + 1, Len(s)), sep)

\* parts.join(sep)
RECURSIVE Join(_, _)
Join(parts, sep) ==
    IF Len(parts) = 0 THEN <<>>
    ELSE IF Len(parts) = 1 THEN parts[1]
    ELSE parts[1] \o <<sep>> \o Join(Tail(parts), sep)

\* The value of a run of decimal digits.
RECURSIVE DecimalVal(_)
DecimalVal(ds) ==
    IF ds = <<>> THEN 0
    ELSE DecimalVal(SubSeq(ds, 1, Len(ds) - 1)) * 10 + DigitVal(ds[Len(ds)])

AllDigits(ds) == \A i \in 1..Len(ds) : ds[i] \in Digits

\* Number(s) of a string: white space trimmed, "" is 0, an optional sign, digits
\* with an optional fraction; anything else is NaN.  In tenths.
UnsignedToNumber(t) ==
    LET dot == LastIndexOf(t, ".")
        whole == IF dot = 0 THEN t ELSE SubSeq(t, 1, dot - 1)
        frac == IF dot = 0 THEN <<>> ELSE SubSeq(t, dot + 1, Len(t))
    IN  IF t = <<>> \/ ~AllDigits(whole) \/ ~AllDigits(frac)
           \/ (whole = <<>> /\ frac = <<>>)
        THEN NaN
        ELSE Num(DecimalVal(whole) * 10 + (IF frac = <<>> THEN 0 ELSE DigitVal(frac[1])))

StringToNumber(s) ==
    LET t == Trim(s)
    IN  IF t = <<>> THEN Num(0)
        ELSE IF t[1] = "-"
        THEN LET u == UnsignedToNumber(Tail(t))
             IN  IF u.k = "num" THEN Num(0 - u.x) ELSE NaN
        ELSE IF t[1] = "+" THEN UnsignedToNumber(Tail(t))
        ELSE UnsignedToNumber(t)

\* String(v)
JsString(v) ==
    CASE v.k = "str" -> v.s
      [] v.k = "undefined" -> <<"u", "n", "d", "e", "f", "i", "n", "e", "d">>
      [] v.k = "null" -> <<"n", "u", "l", "l">>
      [] v.k = "nan" -> <<"N", "a", "N">>
      [] OTHER -> <<>>

\* Arithmetic on numbers, NaN absorbing.
Plus(a, b) == IF a.k = "num" /\ b.k = "num" THEN Num(a.x + b.x) ELSE NaN

Minus(a, b) == IF a.k = "num" /\ b.k = "num" THEN Num(a.x - b.x) ELSE NaN

\* a * n for a whole constant n.
Times(a, n) == IF a.k = "num" THEN Num(a.x * n) ELSE NaN

\* Math.floor(a)
Floor(a) == IF a.k = "num" THEN Num((a.x \div 10) * 10) ELSE NaN

\* a <= b, false when either is NaN.
Leq(a, b) == a.k = "num" /\ b.k = "num" /\ a.x <= b.x

\* a < 0
Negative(a) == a.k = "num" /\ a.x < 0

(***************************************************************************)
(* Time parsing: the extraction service                                    *)
(***************************************************************************)
\* railway-server.js, first revision: timeStr.split(':').map(Number); a value
\* that is no string has no split and throws.
parseTimeToSecondsV1(timeStr) ==
    IF timeStr.k # "str" THEN Throws
    ELSE LET raw == Split(timeStr.s, ":")
             parts == [i \in 1..Len(raw) |-> StringToNumber(raw[i])]
         IN  IF Len(parts) = 3
             THEN Plus(Plus(Times(parts[1], 3600), Times(parts[2], 60)), parts[3])
             ELSE IF Len(parts) = 2
             THEN Plus(Times(parts[1], 60), parts[2])
             ELSE parts[1]

\* railway-server.js, second revision.
parseTimeToSeconds(time) ==
    IF time.k \in {"num", "nan"}
    THEN IF time.k = "nan" \/ Negative(time) THEN Num(0) ELSE Floor(time)
    ELSE LET str == JsString(time)
             raw == Split(str, ":")
             parts == [i \in 1..Len(raw) |-> StringToNumber(raw[i])]
             parsed == StringToNumber(str)
             colon3 == Includes(str, <<":">>) /\ Len(parts) = 3
             colon2 == Includes(str, <<":">>) /\ Len(parts) = 2
         IN  IF colon3
             THEN IF \E i \in 1..3 : parts[i].k = "nan" THEN Num(0)
                  ELSE Plus(Plus(Times(parts[1], 3600), Times(parts[2], 60)), parts[3])
             ELSE IF colon2
             THEN IF \E i \in 1..2 : parts[i].k = "nan" THEN Num(0)
                  ELSE Plus(Times(parts[1], 60), parts[2])
             ELSE IF parsed.k = "nan" \/ Negative(parsed) THEN Num(0)
             ELSE Floor(parsed)

\* calculateDuration of the first revision: end - start, unchecked.
calculateDuration(startTime, endTime) ==
    LET start == parseTimeToSecondsV1(startTime)
        end == parseTimeToSecondsV1(endTime)
    IN  IF start.k = "throw" \/ end.k = "throw" THEN Throws ELSE Minus(end, start)

(***************************************************************************)
(* Manifest rewriting: the rewrite-m3u8 handlers                           *)
(***************************************************************************)
HttpPrefix == <<"h", "t", "t", "p", ":", "/", "/">>

HttpsPrefix == <<"h", "t", "t", "p", "s", ":", "/", "/">>

\* s.startsWith("http://") || s.startsWith("https://")
IsAbsoluteHttp(s) == StartsWith(s, HttpPrefix) \/ StartsWith(s, HttpsPrefix)

\* url.substring(0, url.lastIndexOf("/") + 1)
BaseOf(url) == SubSeq(url, 1, LastIndexOf(url, "/"))

\* rewrite-m3u8/index.ts: one line of the playlist.
RewriteLineMain(line, base) ==
    LET t == Trim(line)
    IN  IF t = <<>> \/ StartsWith(t, <<"#">>) THEN line
        ELSE IF IsAbsoluteHttp(t) THEN line
        ELSE base \o t

\* part_004: the same rule, written the other way round.
RewriteLineP004(line, base) ==
    LET trimmed == Trim(line)
    IN  IF StartsWith(trimmed, <<"#">>) THEN line
        ELSE IF trimmed # <<>> /\ ~StartsWith(trimmed, HttpPrefix)
                /\ ~StartsWith(trimmed, HttpsPrefix)
        THEN base \o trimmed
        ELSE line

\* part_005: a line is taken as absolute as soon as it starts with "http".
RewriteLineP005(line, base) ==
    LET trimmed == Trim(line)
    IN  IF trimmed # <<>> /\ ~StartsWith(trimmed, <<"#">>)
           /\ ~StartsWith(trimmed, <<"h", "t", "t", "p">>)
        THEN base \o trimmed
        ELSE line

RewriteLine(rev, line, base) ==
    CASE rev = "main" -> RewriteLineMain(line, base)
      [] rev = "p004" -> RewriteLineP004(line, base)
      [] rev = "p005" -> RewriteLineP005(line, base)

\* text.split("\n").map(...).join("\n")
RewriteText(rev, text, url) ==
    LET lines == Split(text, "\n")
        out == [i \in 1..Len(lines) |-> RewriteLine(rev, lines[i], BaseOf(url))]
    IN  Join(out, "\n")

\* The URL parser of the runtime's fetch lowers the scheme's letters.
LowerChar(c) ==
    CASE c = "H" -> "h" [] c = "T" -> "t" [] c = "P" -> "p" [] c = "S" -> "s"
      [] OTHER -> c

LowerCase(s) == [i \in 1..Len(s) |-> LowerChar(s[i])]

\* fetch(url) sends a request only for a URL that parses as absolute http(s),
\* the scheme compared without case; for any other it throws a TypeError.
FetchAccepts(url) == IsAbsoluteHttp(LowerCase(url))

\* The validation each handler applies to the url parameter before it fetches:
\* "ok", or the status of the rejection.
RewriteValidate(rev, url) ==
    IF url = <<>> THEN 400
    ELSE IF rev = "main" /\ ~IsAbsoluteHttp(url) THEN 400
    ELSE 200

\* The response of a rewrite handler: url is the url parameter, upstream what
\* the fetch gives ("ok", "notok", "throw") and text the playlist it returns.
RewriteResponse(rev, url, upstream, text) ==
    IF RewriteValidate(rev, url) # 200 THEN [status |-> 400, body |-> <<>>]
    ELSE IF ~FetchAccepts(url) \/ upstream = "throw" THEN [status |-> 500, body |-> <<>>]
    ELSE IF upstream = "notok" THEN [status |-> 502, body |-> <<>>]
    ELSE [status |-> 200, body |-> RewriteText(rev, text, url)]

NoResponse == [status |-> 0, body |-> <<>>]

(***************************************************************************)
(* Time formatting: the process-clip edge handlers                         *)
(***************************************************************************)
DigitChar(d) ==
    CASE d = 0 -> "0" [] d = 1 -> "1" [] d = 2 -> "2" [] d = 3 -> "3"
      [] d = 4 -> "4" [] d = 5 -> "5" [] d = 6 -> "6" [] d = 7 -> "7"
      [] d = 8 -> "8" [] d = 9 -> "9"

\* The decimal digits of a whole number n >= 0.
RECURSIVE NatDigits(_)
NatDigits(n) ==
    IF n < 10 THEN <<DigitChar(n)>> ELSE NatDigits(n \div 10) \o <<DigitChar(n % 10)>>

\* n.toString() of a whole number.
IntToString(n) == IF n < 0 THEN <<"-">> \o NatDigits(0 - n) ELSE NatDigits(n)

\* s.padStart(2, "0")
PadStart2(s) == IF Len(s) < 2 THEN <<"0">> \o s ELSE s

\* a % n of JavaScript on whole numbers: the sign of the dividend.
JsRem(a, n) == IF a >= 0 THEN a % n ELSE 0 - ((0 - a) % n)

\* part_002 normalizeTime: a finite number becomes HH:MM:SS, a string with a
\* colon is passed on as it is, a numeric string is converted and formatted,
\* anything else throws.  The result is a string value or Throws.
NormalizeNumber(x) ==
    LET floored == (x \div 10)
        total == IF floored < 0 THEN 0 ELSE floored
        hours == total \div 3600
        minutes == (total % 3600) \div 60
        seconds == total % 60
    IN  Str(PadStart2(IntToString(hours)) \o <<":">> \o PadStart2(IntToString(minutes))
            \o <<":">> \o PadStart2(IntToString(seconds)))

normalizeTime(value) ==
    IF value.k = "num" THEN NormalizeNumber(value.x)
    ELSE IF value.k = "str"
    THEN IF Includes(value.s, <<":">>) THEN value
         ELSE LET asNumber == StringToNumber(value.s)
              IN  IF asNumber.k = "num" THEN NormalizeNumber(asNumber.x) ELSE Throws
    ELSE Throws

\* part_003 (third revision) formatTime(seconds): no clamping, no validation.
\* null counts as 0; undefined and NaN print as NaN.
formatTime(seconds) ==
    IF seconds.k \in {"num", "null"}
    THEN LET x == IF seconds.k = "null" THEN 0 ELSE seconds.x
             h == (x \div 36000)
             rem3600 == JsRem(x, 36000)
             m == (rem3600 \div 600)
             s == (JsRem(x, 600) \div 10)
         IN  Str(PadStart2(IntToString(h)) \o <<":">> \o PadStart2(IntToString(m))
                 \o <<":">> \o PadStart2(IntToString(s)))
    ELSE Str(<<"N", "a", "N", ":", "N", "a", "N", ":", "N", "a", "N">>)

(***************************************************************************)
(* Byte buffers and the container signature                                *)
(***************************************************************************)
\* An MP4 whose ftyp box starts the file: the marker at offsets 4-7.
Mp4At4 == <<0, 0, 0, 24, 102, 116, 121, 112, 105, 115, 111, 109>>

\* The marker at offsets 8-11.
Mp4At8 == <<0, 0, 0, 1, 0, 0, 0, 0, 102, 116, 121, 112>>

\* An HTML error page.
HtmlPage == <<60, 104, 116, 109, 108, 62>>

\* Twelve bytes with the marker at offset 5.
Misaligned == <<0, 0, 0, 0, 0, 102, 116, 121, 112, 0, 0, 0>>

Buffers == { <<>>, Mp4At4, Mp4At8, HtmlPage, Misaligned }

\* header[i] of a buffer, -1 for undefined.
ByteAt(buf, i) == IF i + 1 <= Len(buf) THEN buf[i + 1] ELSE -1

\* railway-server.js isFtyp: 'f' 't' 'y' 'p' at offsets 4-7 or 8-11.
isFtyp(buf) ==
    \/ ByteAt(buf, 4) = 102 /\ ByteAt(buf, 5) = 116 /\ ByteAt(buf, 6) = 121 /\ ByteAt(buf, 7) = 112
    \/ ByteAt(buf, 8) = 102 /\ ByteAt(buf, 9) = 116 /\ ByteAt(buf, 10) = 121 /\ ByteAt(buf, 11) = 112

(***************************************************************************)
(* State                                                                   *)
(***************************************************************************)
VARIABLES
    tInput,     \* the value handed to a time parser
    tResult,    \* what the parser returned (Pending before the call)
    tRev,       \* which parser ran: "v1", "v2", "none"
    mRev,       \* the rewrite handler that serves: "main", "p004", "p005"
    mUri,       \* the url parameter of the rewrite request
    mText,      \* the playlist text the upstream holds at mUri
    mPass1,     \* the response to the rewrite request
    mPass2,     \* the response when the rewritten playlist is rewritten again
    mFetchCalls,\* the urls handed to fetch, in order
    handler,    \* the program that serves the clip requests
    serviceUrl, \* whether FFMPEG_SERVICE_URL is set in the edge environment
    now,        \* Date.now() of the extraction service, in milliseconds
    uuid,       \* how many crypto.randomUUID() values have been drawn
    fs,         \* the temporary files on disk: records [path, data, by]
    req,        \* the clip requests: one record per request
    pText,      \* the master playlist handed to the variant selection
    pRev,       \* which selection ran: "gvs", "p000", "none"
    pChosen,    \* chunkedUrl after the selection
    vs          \* the get-vod-stream request: one record

timeVars == <<tInput, tResult, tRev>>

rewriteVars == <<mRev, mUri, mText, mPass1, mPass2, mFetchCalls>>

clipVars == <<handler, serviceUrl, now, uuid, fs, req>>

resolveVars == <<pText, pRev, pChosen, vs>>

vars == <<tInput, tResult, tRev, mRev, mUri, mText, mPass1, mPass2, mFetchCalls,
          handler, serviceUrl, now, uuid, fs, req, pText, pRev, pChosen, vs>>

\* No time parser under test.
TimeIdle == tInput = Undefined /\ tResult = Pending /\ tRev = "none"

\* No rewrite request under test.
RewriteIdle ==
    /\ mRev = "none" /\ mUri = <<>> /\ mText = <<>>
    /\ mPass1 = NoResponse /\ mPass2 = NoResponse /\ mFetchCalls = <<>>

\* No clip handler under test.
ClipIdle ==
    /\ handler = "none" /\ serviceUrl = FALSE /\ now = 0 /\ uuid = 0
    /\ fs = {} /\ req = <<>>

\* No response sent yet by get-vod-stream.
NoVodReply ==
    [status |-> 0, streamUrl |-> <<>>, title |-> "none", duration |-> "none",
     error |-> "none"]

\* The get-vod-stream request record when no request is under test.
NoVodRequest ==
    [pc |-> "none", rev |-> "none", vodId |-> <<>>, secret |-> FALSE,
     calls |-> <<>>, tokenValue |-> <<>>, tokenSig |-> <<>>, playlist |-> <<>>,
     chosen |-> <<>>, resp |-> NoVodReply]

\* No variant selection and no get-vod-stream request under test.
ResolveIdle ==
    /\ pText = <<>> /\ pRev = "none" /\ pChosen = <<>>
    /\ vs = NoVodRequest

(***************************************************************************)
(* Inputs of the time parsers                                              *)
(***************************************************************************)
\* The longest colon string has MaxParts parts.
MaxParts == 3

TimeParts ==
    { <<>>, <<"0">>, <<"0", "1">>, <<"0", "2">>, <<"0", "3">>, <<"2">>,
      <<"0", "5">>, <<"-", "5">>, <<"1", ".", "5">>, <<"x">> }

ColonStrings ==
    UNION { { Join(p, ":") : p \in [1..n -> TimeParts] } : n \in 1..MaxParts }

TimeNumbers == { Num(x) : x \in {-70, -15, 0, 5, 15, 100, 150, 1255} } \cup {NaN}

TimeInputs == { Str(s) : s \in ColonStrings } \cup TimeNumbers \cup {Undefined, Null}

(***************************************************************************)
(* The time parsers as operations                                          *)
(***************************************************************************)
TimeInit ==
    /\ tInput \in TimeInputs
    /\ tResult = Pending
    /\ tRev = "none"
    /\ RewriteIdle
    /\ ClipIdle
    /\ ResolveIdle

ParseTimeV1 ==
    /\ tResult = Pending
    /\ tResult' = parseTimeToSecondsV1(tInput)
    /\ tRev' = "v1"
    /\ UNCHANGED <<tInput, rewriteVars, clipVars, resolveVars>>

ParseTimeV2 ==
    /\ tResult = Pending
    /\ tResult' = parseTimeToSeconds(tInput)
    /\ tRev' = "v2"
    /\ UNCHANGED <<tInput, rewriteVars, clipVars, resolveVars>>

TimeNext == ParseTimeV1 \/ ParseTimeV2

SpecTime == TimeInit /\ [][TimeNext]_vars

(***************************************************************************)
(* C8                                                                      *)
(***************************************************************************)
\* The parts of a colon string, when every one is a run of decimal digits.
DigitParts(s) ==
    LET raw == Split(s, ":")
    IN  \A i \in 1..Len(raw) : raw[i] # <<>> /\ AllDigits(raw[i])

\* What the specification's normalize gives for a colon string of digit parts.
SpecColonSeconds(s) ==
    LET raw == Split(s, ":")
    IN  IF Len(raw) = 3
        THEN DecimalVal(raw[1]) * 3600 + DecimalVal(raw[2]) * 60 + DecimalVal(raw[3])
        ELSE DecimalVal(raw[1]) * 60 + DecimalVal(raw[2])

\* n truncated toward zero and clamped to >= 0, in tenths.
SpecNumberSeconds(x) == IF x < 0 THEN 0 ELSE (x \div 10) * 10

\* C8: parseTimeToSeconds gives H*3600+M*60+S for a 3-part colon string and
\* M*60+S for a 2-part one, every part read as a non-negative integer (so the
\* result is a non-negative whole number of seconds), and gives a number n
\* truncated toward zero and clamped to >= 0.
C8_ParseAsSpecified ==
    tResult # Pending =>
        /\ ( /\ tInput.k = "str"
             /\ Len(Split(tInput.s, ":")) \in {2, 3} )
           => /\ IsInteger(tResult) /\ tResult.x >= 0
              /\ DigitParts(tInput.s) => tResult = Secs(SpecColonSeconds(tInput.s))
        /\ tInput.k = "num" => tResult = Num(SpecNumberSeconds(tInput.x))

\* The part of C8 the code does satisfy: colon strings of digit parts, and
\* numbers in the second revision.
C8_DigitPartsParsed ==
    tResult # Pending =>
        /\ ( /\ tInput.k = "str"
             /\ Len(Split(tInput.s, ":")) \in {2, 3}
             /\ DigitParts(tInput.s) )
           => tResult = Secs(SpecColonSeconds(tInput.s))
        /\ (tInput.k = "num" /\ tRev = "v2") => tResult = Num(SpecNumberSeconds(tInput.x))

(***************************************************************************)
(* The rewrite handlers as operations                                      *)
(***************************************************************************)
\* A playlist has at most MaxLines lines.
MaxLines == 2

PlaylistLines ==
    { <<>>,
      <<"#", "E">>,
      <<" ", "#", "c">>,
      <<"s", ".", "t", "s">>,
      <<"s", ".", "t", "s", "\r">>,
      <<" ", "s">>,
      <<"h", "t", "t", "p", ":", "/", "/", "x", "/", "s">>,
      <<"h", "t", "t", "p", "s", ":", "/", "/", "x", "/", "s">>,
      <<"h", "t", "t", "p", "d", "/", "s">> }

Playlists ==
    UNION { { Join(l, "\n") : l \in [1..n -> PlaylistLines] } : n \in 1..MaxLines }

ManifestUris ==
    { <<>>,
      <<"h", "t", "t", "p", ":", "/", "/", "c", "/", "p", "/", "m">>,
      <<"h", "t", "t", "p", "s", ":", "/", "/", "c", "/", "m">>,
      <<"h", "t", "t", "p", ":", "/", "/", "c">>,
      <<"H", "T", "T", "P", ":", "/", "/", "c", "/", "p", "/", "m">>,
      <<"/", "p", "/", "m">> }

RewriteInit ==
    /\ mRev = "none"
    /\ mUri \in ManifestUris
    /\ mText \in Playlists
    /\ mPass1 = NoResponse
    /\ mPass2 = NoResponse
    /\ mFetchCalls = <<>>
    /\ TimeIdle
    /\ ClipIdle
    /\ ResolveIdle

\* One request served by handler rev: validation, fetch, rewriting, response.
RewriteRequest(rev) ==
    /\ mRev = "none"
    /\ mRev' = rev
    /\ \E upstream \in {"ok", "notok", "throw"} :
          mPass1' = RewriteResponse(rev, mUri, upstream, mText)
    /\ mFetchCalls' = IF RewriteValidate(rev, mUri) = 200
                      THEN Append(mFetchCalls, mUri) ELSE mFetchCalls
    /\ UNCHANGED <<mUri, mText, mPass2, timeVars, clipVars, resolveVars>>

RewriteMain == RewriteRequest("main")

RewriteP004 == RewriteRequest("p004")

RewriteP005 == RewriteRequest("p005")

\* The rewritten playlist is served at the same url and rewritten once more by
\* the same handler.
RewriteAgain ==
    /\ mRev # "none"
    /\ mPass1.status = 200
    /\ mPass2 = NoResponse
    /\ mPass2' = RewriteResponse(mRev, mUri, "ok", mPass1.body)
    /\ mFetchCalls' = Append(mFetchCalls, mUri)
    /\ UNCHANGED <<mRev, mUri, mText, mPass1, timeVars, clipVars, resolveVars>>

RewriteNext == RewriteMain \/ RewriteP004 \/ RewriteP005 \/ RewriteAgain

SpecRewrite == RewriteInit /\ [][RewriteNext]_vars

(***************************************************************************)
(* C9                                                                      *)
(***************************************************************************)
\* The line the specification's rewrite gives for one input line.
SpecRewriteLine(line, base) ==
    IF Trim(line) = <<>> \/ StartsWith(line, <<"#">>) \/ IsAbsoluteHttp(line)
    THEN line
    ELSE base \o line

\* C9: each output line equals the input line when that is blank, starts with
\* '#' or starts with http:// or https://, and equals base + line otherwise,
\* base being the manifest uri cut after its last '/'; lines keep their order.
C9_RewriteLineByLine ==
    mPass1.status = 200 =>
        LET in == Split(mText, "\n")
            out == Split(mPass1.body, "\n")
        IN  /\ Len(out) = Len(in)
            /\ \A i \in 1..Len(in) : out[i] = SpecRewriteLine(in[i], BaseOf(mUri))

\* What every revision does satisfy: the rule applied to the trimmed line, for
\* lines that do not start with "http" without being absolute.
C9_RewriteTrimmedLines ==
    mPass1.status = 200 =>
        LET in == Split(mText, "\n")
            out == Split(mPass1.body, "\n")
        IN  /\ Len(out) = Len(in)
            /\ \A i \in 1..Len(in) :
                  LET t == Trim(in[i])
                  IN  IF t = <<>> \/ StartsWith(t, <<"#">>) \/ IsAbsoluteHttp(t)
                      THEN out[i] = in[i]
                      ELSE StartsWith(t, <<"h", "t", "t", "p">>) \/ out[i] = BaseOf(mUri) \o t

(***************************************************************************)
(* C10                                                                     *)
(***************************************************************************)
\* C10: rewriting an already rewritten manifest with the same manifest uri
\* gives the same string again, for every uri the handler accepts.
C10_RewriteIdempotent ==
    mPass2 # NoResponse => mPass2 = mPass1

\* The handler that validates the uri is idempotent.
C10_MainIdempotent ==
    (mRev = "main" /\ mPass2 # NoResponse) => mPass2 = mPass1

(***************************************************************************)
(* Clip requests: state shared by the extraction service and the edge      *)
(* handlers                                                                *)
(***************************************************************************)
NoPath == <<"none", 0>>

NoReply == [status |-> 0, mp4 |-> FALSE, data |-> <<>>, error |-> "none", details |-> <<>>]

\* A JSON error response.
ErrorReply(status, error) ==
    [status |-> status, mp4 |-> FALSE, data |-> <<>>, error |-> error, details |-> <<>>]

\* A JSON error response whose details (or message) field holds a text.
FailureReply(status, error, details) ==
    [status |-> status, mp4 |-> FALSE, data |-> <<>>, error |-> error,
     details |-> details]

\* A 200 response typed video/mp4 that carries data.
ClipReply(data) ==
    [status |-> 200, mp4 |-> TRUE, data |-> data, error |-> "none", details |-> <<>>]

\* A request that has not arrived yet, with the body it will carry.
NewRequest(vodUrl, startTime, endTime) ==
    [ pc |-> "idle", vodUrl |-> vodUrl, startTime |-> startTime, endTime |-> endTime,
      inputPath |-> NoPath, outputPath |-> NoPath,
      log |-> <<>>,               \* the calls made for the request, in order
      eng |-> "none",             \* the engine: none, spawned, running, exited, failed
      seek |-> Undefined, duration |-> Undefined,
      startSeconds |-> Undefined, endSeconds |-> Undefined,
      buf |-> <<>>, gotBuf |-> FALSE,  \* the engine's or delegate's result
      source |-> "none",          \* where the input came from: requested, fallback
      err |-> "none",             \* the message of the error that was thrown
      diag |-> <<>>,              \* what the engine or the delegate said when it failed
      thrown |-> <<>>,            \* the text that the thrown error's message holds of it
      resp |-> NoReply ]

Reqs == DOMAIN req

FileExists(p) == \E f \in fs : f.path = p

FileData(p) == (CHOOSE f \in fs : f.path = p).data

\* The disk after file p is written with data by request r's work.
FsWrite(p, data, r) ==
    {f \in fs : f.path # p} \cup {[path |-> p, data |-> data, by |-> r]}

\* The disk after unlink(p), errors ignored.
FsRemove(files, p) == {f \in files : f.path # p}

Logged(r, what) == \E i \in 1..Len(req[r].log) : req[r].log[i] = what

\* The request has ended: its response has been sent.
Ended(r) == req[r].pc = "done"

(***************************************************************************)
(* The extraction service: app.post('/clip'), both revisions               *)
(***************************************************************************)
\* Date.now() does not pass MaxClock.
MaxClock == 1

Tick ==
    /\ handler \in {"railway_v1", "railway_v2"}
    /\ now < MaxClock
    /\ now' = now + 1
    /\ UNCHANGED <<handler, serviceUrl, uuid, fs, req, timeVars, rewriteVars, resolveVars>>

\* Second revision, lines 247-286: the output path from Date.now(), then the
\* validation of the body, up to the await of mkdir.
ClipReceiveV2(r) ==
    /\ handler = "railway_v2"
    /\ req[r].pc = "idle"
    /\ LET q == [req[r] EXCEPT !.outputPath = <<"output", now>>]
       IN  IF Falsy(q.vodUrl) \/ IsNullish(q.startTime) \/ IsNullish(q.endTime)
           THEN req' = [req EXCEPT ![r] =
                    [q EXCEPT !.pc = "done", !.resp = ErrorReply(400, "missing_fields")]]
           ELSE IF q.vodUrl.k # "str" \/ ~IsAbsoluteHttp(q.vodUrl.s)
           THEN req' = [req EXCEPT ![r] =
                    [q EXCEPT !.pc = "done", !.resp = ErrorReply(400, "not_absolute")]]
           ELSE req' = [req EXCEPT ![r] =
                    [q EXCEPT !.pc = "mkdir", !.log = Append(@, "mkdir")]]
    /\ UNCHANGED <<handler, serviceUrl, now, uuid, fs, timeVars, rewriteVars, resolveVars>>

\* Math.max(1, endSeconds - startSeconds)
DurationV2(startSeconds, endSeconds) ==
    LET d == Minus(endSeconds, startSeconds)
    IN  IF d.k = "num" /\ d.x < 10 THEN Num(10) ELSE d

\* !Number.isFinite(duration) || duration <= 0 || Number.isNaN(duration)
InvalidDuration(d) == d.k # "num" \/ d.x <= 0

\* Second revision, lines 288-383: the times are parsed, the range is checked
\* and the engine is started with seekInput(startSeconds) and duration.
ClipSpawnV2(r) ==
    /\ handler = "railway_v2"
    /\ req[r].pc = "mkdir"
    /\ LET startSeconds == parseTimeToSeconds(req[r].startTime)
           endSeconds == parseTimeToSeconds(req[r].endTime)
           duration == DurationV2(startSeconds, endSeconds)
           q == [req[r] EXCEPT !.startSeconds = startSeconds, !.endSeconds = endSeconds]
       IN  IF Leq(endSeconds, startSeconds)
           THEN req' = [req EXCEPT ![r] =
                    [q EXCEPT !.pc = "done", !.resp = ErrorReply(400, "invalid_range")]]
           ELSE IF InvalidDuration(duration)
           THEN req' = [req EXCEPT ![r] =
                    [q EXCEPT !.pc = "done", !.resp = ErrorReply(400, "invalid_duration")]]
           ELSE req' = [req EXCEPT ![r] =
                    [q EXCEPT !.pc = "ffmpeg", !.eng = "spawned",
                              !.seek = startSeconds, !.duration = duration,
                              !.log = Append(@, "engine")]]
    /\ UNCHANGED <<handler, serviceUrl, now, uuid, fs, timeVars, rewriteVars, resolveVars>>

\* First revision, lines 36-53: both paths from Date.now(), the body checked
\* for falsy fields only.
ClipReceiveV1(r) ==
    /\ handler = "railway_v1"
    /\ req[r].pc = "idle"
    /\ LET q == [req[r] EXCEPT !.inputPath = <<"input", now>>,
                                !.outputPath = <<"output", now>>]
       IN  IF Falsy(q.vodUrl) \/ Falsy(q.startTime) \/ Falsy(q.endTime)
           THEN req' = [req EXCEPT ![r] =
                    [q EXCEPT !.pc = "done", !.resp = ErrorReply(400, "missing_fields")]]
           ELSE req' = [req EXCEPT ![r] =
                    [q EXCEPT !.pc = "mkdir", !.log = Append(@, "mkdir")]]
    /\ UNCHANGED <<handler, serviceUrl, now, uuid, fs, timeVars, rewriteVars, resolveVars>>

\* First revision, lines 55-65: the source is downloaded whole and written to
\* the input path.  node-fetch throws for a url that is not absolute.
ClipDownloadV1(r) ==
    /\ handler = "railway_v1"
    /\ req[r].pc = "mkdir"
    /\ \E upstream \in {"ok", "notok", "throw"}, data \in {Mp4At4, HtmlPage} :
          IF upstream = "ok" /\ req[r].vodUrl.k = "str" /\ FetchAccepts(req[r].vodUrl.s)
          THEN /\ fs' = FsWrite(req[r].inputPath, data, r)
               /\ req' = [req EXCEPT ![r] =
                     [@ EXCEPT !.pc = "downloaded", !.source = "requested",
                               !.log = @ \o <<"fetch", "writeTemp">>]]
          ELSE /\ req' = [req EXCEPT ![r] =
                     [@ EXCEPT !.pc = "catch", !.err = "download_failed",
                               !.log = IF req[r].vodUrl.k = "str"
                                          /\ FetchAccepts(req[r].vodUrl.s)
                                       THEN Append(@, "fetch") ELSE @]]
               /\ UNCHANGED fs
    /\ UNCHANGED <<handler, serviceUrl, now, uuid, timeVars, rewriteVars, resolveVars>>

\* First revision, lines 67-94: setStartTime(startTime) with the raw value and
\* setDuration(calculateDuration(...)); a throw inside the promise rejects it.
ClipSpawnV1(r) ==
    /\ handler = "railway_v1"
    /\ req[r].pc = "downloaded"
    /\ LET duration == calculateDuration(req[r].startTime, req[r].endTime)
       IN  IF duration = Throws
           THEN req' = [req EXCEPT ![r] = [@ EXCEPT !.pc = "catch", !.err = "type_error"]]
           ELSE req' = [req EXCEPT ![r] =
                    [@ EXCEPT !.pc = "ffmpeg", !.eng = "spawned",
                              !.startSeconds = parseTimeToSecondsV1(req[r].startTime),
                              !.endSeconds = parseTimeToSecondsV1(req[r].endTime),
                              !.seek = req[r].startTime, !.duration = duration,
                              !.log = Append(@, "engine")]]
    /\ UNCHANGED <<handler, serviceUrl, now, uuid, fs, timeVars, rewriteVars, resolveVars>>

\* cmd.includes('NaN') || cmd.includes('undefined'): the command line holds the
\* source url, the seek position, the duration and the output path.
CommandHasNaN(q) ==
    \/ q.vodUrl.k = "str" /\ Includes(q.vodUrl.s, <<"N", "a", "N">>)
    \/ q.vodUrl.k = "str"
       /\ Includes(q.vodUrl.s, <<"u", "n", "d", "e", "f", "i", "n", "e", "d">>)
    \/ q.seek.k \in {"nan", "undefined"}
    \/ q.duration.k \in {"nan", "undefined"}

\* The engine's 'start' event.  The second revision's handler (lines 356-363)
\* rejects the promise when the command holds NaN or undefined; it does not
\* stop the engine.  The first revision's handler (lines 79-81) only logs.
FfmpegStart(r) ==
    /\ handler \in {"railway_v1", "railway_v2"}
    /\ req[r].eng = "spawned"
    /\ IF handler = "railway_v2" /\ CommandHasNaN(req[r]) /\ req[r].pc = "ffmpeg"
       THEN req' = [req EXCEPT ![r] =
                [@ EXCEPT !.eng = "running", !.pc = "catch", !.err = "invalid_command"]]
       ELSE req' = [req EXCEPT ![r] = [@ EXCEPT !.eng = "running"]]
    /\ UNCHANGED <<handler, serviceUrl, now, uuid, fs, timeVars, rewriteVars, resolveVars>>

\* The running engine writes its output file (.output(outputPath)).
FfmpegWrite(r) ==
    /\ handler \in {"railway_v1", "railway_v2"}
    /\ req[r].eng = "running"
    /\ \E data \in Buffers : fs' = FsWrite(req[r].outputPath, data, r)
    /\ UNCHANGED <<handler, serviceUrl, now, uuid, req, timeVars, rewriteVars, resolveVars>>

\* The engine's 'end' event (lines 85-88, 372-375) resolves the promise, if it
\* is still pending.
FfmpegEnd(r) ==
    /\ handler \in {"railway_v1", "railway_v2"}
    /\ req[r].eng = "running"
    /\ req' = [req EXCEPT ![r] =
          [@ EXCEPT !.eng = "exited",
                    !.pc = IF @ = "ffmpeg" THEN "read" ELSE @]]
    /\ UNCHANGED <<handler, serviceUrl, now, uuid, fs, timeVars, rewriteVars, resolveVars>>

\* The texts an engine or a delegate may give with its failure.
ShortText == <<"e", "r", "r">>

ErrorTexts == {ShortText}

\* The engine's 'error' event (lines 89-92, 376-381) rejects the promise with
\* the event's err.message.
FfmpegError(r) ==
    /\ handler \in {"railway_v1", "railway_v2"}
    /\ req[r].eng \in {"spawned", "running"}
    /\ \E message \in ErrorTexts :
          req' = [req EXCEPT ![r] =
             [@ EXCEPT !.eng = "failed", !.diag = message,
                       !.pc = IF @ = "ffmpeg" THEN "catch" ELSE @,
                       !.err = IF req[r].pc = "ffmpeg" THEN "ffmpeg_failed" ELSE @]]
    /\ UNCHANGED <<handler, serviceUrl, now, uuid, fs, timeVars, rewriteVars, resolveVars>>

\* The emptiness test with its comparison turned: never true of a buffer.
EmptyOutputMissed(buf) == Len(buf) < 0

\* outputBuffer.length === 0 (second revision, line 390)
EmptyOutputV2(buf) == Len(buf) = 0

\* outputBuffer.length === 0 (first revision, line 100)
EmptyOutputV1(buf) == Len(buf) = 0

\* Lines 96-102 and 386-407: the output file is read back; a missing file and
\* an empty one throw.  The second revision computes isFtyp and only logs it.
ClipRead(r) ==
    /\ handler \in {"railway_v1", "railway_v2"}
    /\ req[r].pc = "read"
    /\ IF ~FileExists(req[r].outputPath)
       THEN req' = [req EXCEPT ![r] =
                [@ EXCEPT !.pc = "catch", !.err = "read_failed"]]
       ELSE LET outputBuffer == FileData(req[r].outputPath)
                empty == IF handler = "railway_v2" THEN EmptyOutputV2(outputBuffer)
                         ELSE EmptyOutputV1(outputBuffer)
            IN  IF empty
                THEN req' = [req EXCEPT ![r] =
                         [@ EXCEPT !.pc = "catch", !.buf = outputBuffer, !.gotBuf = TRUE,
                                   !.err = "empty_output"]]
                ELSE req' = [req EXCEPT ![r] =
                         [@ EXCEPT !.pc = "cleanup", !.buf = outputBuffer, !.gotBuf = TRUE]]
    /\ UNCHANGED <<handler, serviceUrl, now, uuid, fs, timeVars, rewriteVars, resolveVars>>

\* Lines 104-114 and 409-420: the temporary files are unlinked and the clip is
\* sent with status 200 as video/mp4.
ClipFinish(r) ==
    /\ handler \in {"railway_v1", "railway_v2"}
    /\ req[r].pc = "cleanup"
    /\ fs' = FsRemove(FsRemove(fs, req[r].inputPath), req[r].outputPath)
    /\ req' = [req EXCEPT ![r] = [@ EXCEPT !.pc = "done", !.resp = ClipReply(req[r].buf)]]
    /\ UNCHANGED <<handler, serviceUrl, now, uuid, timeVars, rewriteVars, resolveVars>>

\* Lines 116-131 and 421-436: the catch block unlinks the temporary files and
\* sends 500 with the error's message.
ClipCatch(r) ==
    /\ handler \in {"railway_v1", "railway_v2"}
    /\ req[r].pc = "catch"
    /\ fs' = FsRemove(FsRemove(fs, req[r].inputPath), req[r].outputPath)
    /\ req' = [req EXCEPT ![r] =
          [@ EXCEPT !.pc = "done",
                    !.resp = FailureReply(500, req[r].err,
                                 IF req[r].err = "ffmpeg_failed" THEN req[r].diag
                                 ELSE <<>>)]]
    /\ UNCHANGED <<handler, serviceUrl, now, uuid, timeVars, rewriteVars, resolveVars>>

RailwayNext ==
    \/ Tick
    \/ \E r \in Reqs :
          \/ ClipReceiveV1(r) \/ ClipDownloadV1(r) \/ ClipSpawnV1(r)
          \/ ClipReceiveV2(r) \/ ClipSpawnV2(r)
          \/ FfmpegStart(r) \/ FfmpegWrite(r) \/ FfmpegEnd(r) \/ FfmpegError(r)
          \/ ClipRead(r) \/ ClipFinish(r) \/ ClipCatch(r)

(***************************************************************************)
(* The edge handler process-clip/index.ts: local-process strategy, or the  *)
(* remote service when FFMPEG_SERVICE_URL is set                           *)
(***************************************************************************)
MntData == <<"/", "m", "n", "t", "/", "d", "a", "t", "a">>

\* Lines 121-138: only a missing vodUrl is rejected; the times default.
EdgeReceive(r) ==
    /\ handler = "edge_index"
    /\ req[r].pc = "idle"
    /\ IF Falsy(req[r].vodUrl)
       THEN req' = [req EXCEPT ![r] =
                [@ EXCEPT !.pc = "done", !.resp = ErrorReply(400, "vodUrl_required")]]
       ELSE req' = [req EXCEPT ![r] = [@ EXCEPT !.pc = "source"]]
    /\ UNCHANGED <<handler, serviceUrl, now, uuid, fs, timeVars, rewriteVars, resolveVars>>

\* The first call of lines 144-225 for a source locator: Deno.readFile for a
\* path under /mnt/data (case A), fetch for everything else (cases B and C).
SourceCall(vodUrl) ==
    IF vodUrl.k = "str" /\ StartsWith(vodUrl.s, MntData) THEN "readFile" ELSE "fetch"

\* Lines 144-225: the input buffer is read from disk or fetched.  got is what
\* the read or fetch gives: "video", "notvideo", "notok" (a non-2xx answer),
\* "throw".  Anything but a video falls back to the sample MP4, except a
\* non-2xx answer to the fetch of an absolute url (case C), which ends in 502.
EdgeSource(r) ==
    /\ handler = "edge_index"
    /\ req[r].pc = "source"
    /\ \E got \in {"video", "notvideo", "notok", "throw"}, data \in {Mp4At4, <<>>} :
          LET vodUrl == req[r].vodUrl
              call == SourceCall(vodUrl)
              caseC == ~(vodUrl.k = "str" /\ StartsWith(vodUrl.s, <<"/">>))
          IN  /\ call = "readFile" => got # "notok"
              /\ IF got = "video"
                 THEN req' = [req EXCEPT ![r] =
                          [@ EXCEPT !.pc = "have_input", !.buf = data, !.source = "requested",
                                    !.log = Append(@, call)]]
                 ELSE IF got = "notok" /\ caseC
                 THEN req' = [req EXCEPT ![r] =
                          [@ EXCEPT !.pc = "done", !.log = Append(@, call),
                                    !.resp = ErrorReply(502, "fetch_source_failed")]]
                 ELSE req' = [req EXCEPT ![r] =
                          [@ EXCEPT !.pc = "fallback", !.log = Append(@, call)]]
    /\ UNCHANGED <<handler, serviceUrl, now, uuid, fs, timeVars, rewriteVars, resolveVars>>

\* loadFallbackSampleVod, lines 25-42: the sample MP4 is fetched; a failure
\* throws to the handler's outer catch (lines 289-296).
EdgeFallback(r) ==
    /\ handler = "edge_index"
    /\ req[r].pc = "fallback"
    /\ \E ok \in BOOLEAN :
          IF ok
          THEN req' = [req EXCEPT ![r] =
                   [@ EXCEPT !.pc = "have_input", !.buf = Mp4At4, !.source = "fallback",
                             !.log = Append(@, "fetch")]]
          ELSE req' = [req EXCEPT ![r] =
                   [@ EXCEPT !.pc = "done", !.log = Append(@, "fetch"),
                             !.resp = ErrorReply(500, "fallback_failed")]]
    /\ UNCHANGED <<handler, serviceUrl, now, uuid, fs, timeVars, rewriteVars, resolveVars>>

\* writeTempFile (lines 47-53) and lines 229-231: the input buffer is written
\* to input-<uuid>.mp4; the output path is the same name with -out.mp4.
EdgeWriteTemp(r) ==
    /\ handler = "edge_index"
    /\ req[r].pc = "have_input"
    /\ uuid' = uuid + 1
    /\ fs' = FsWrite(<<"tmp-input", uuid>>, req[r].buf, r)
    /\ req' = [req EXCEPT ![r] =
          [@ EXCEPT !.pc = "run", !.inputPath = <<"tmp-input", uuid>>,
                    !.outputPath = <<"tmp-input-out", uuid>>, !.buf = <<>>,
                    !.log = Append(@, "writeTemp")]]
    /\ UNCHANGED <<handler, serviceUrl, now, timeVars, rewriteVars, resolveVars>>

\* callFfmpegService, lines 97-104 and 238-241: a GET of the service url
\* through fetchWithTimeout; the abort after 120 s makes the call throw, so
\* the call always returns.  Its answer is not looked at.
EdgeRemoteGet(r) ==
    /\ handler = "edge_index"
    /\ req[r].pc = "run"
    /\ serviceUrl
    /\ \E get \in {"ok", "throw"} :
          IF get = "throw"
          THEN req' = [req EXCEPT ![r] =
                   [@ EXCEPT !.pc = "ffmpeg_failed", !.err = "service_unreachable",
                             !.log = Append(@, "delegate_get")]]
          ELSE req' = [req EXCEPT ![r] =
                   [@ EXCEPT !.pc = "posting",
                             !.log = @ \o <<"delegate_get", "delegate_post">>]]
    /\ UNCHANGED <<handler, serviceUrl, now, uuid, fs, timeVars, rewriteVars, resolveVars>>

\* callFfmpegService, lines 107-118: the service answers the POST, which is
\* sent with a plain fetch; a non-2xx answer throws.
EdgeRemotePost(r) ==
    /\ handler = "edge_index"
    /\ req[r].pc = "posting"
    /\ \E post \in {"ok", "notok", "throw"}, data \in Buffers :
          IF post = "throw"
          THEN req' = [req EXCEPT ![r] =
                   [@ EXCEPT !.pc = "ffmpeg_failed", !.err = "service_failed"]]
          ELSE IF post = "notok"
          THEN \E body \in ErrorTexts :
                  req' = [req EXCEPT ![r] =
                     [@ EXCEPT !.pc = "ffmpeg_failed", !.err = "service_failed",
                               !.diag = body, !.thrown = body]]
          ELSE req' = [req EXCEPT ![r] =
                   [@ EXCEPT !.pc = "respond", !.buf = data, !.gotBuf = TRUE]]
    /\ UNCHANGED <<handler, serviceUrl, now, uuid, fs, timeVars, rewriteVars, resolveVars>>

\* errText.slice(0, 400) in runNativeFfmpeg, line 88
StderrKept == 400

\* s.slice(0, n)
Slice(s, n) == SubSeq(s, 1, IF Len(s) < n THEN Len(s) ELSE n)

\* What the engine may have printed on stderr: a short text, and one that is
\* one character longer than what the thrown message keeps.
StderrTexts == {ShortText, [i \in 1..(StderrKept + 1) |-> "e"]}

\* runNativeFfmpeg, lines 59-91 and 243-249: Deno.run may throw; the engine
\* runs to its exit; a non-zero exit throws; then the output file is read.
\* The engine may have written the output file whatever its exit code.
EdgeNative(r) ==
    /\ handler = "edge_index"
    /\ req[r].pc = "run"
    /\ ~serviceUrl
    /\ \E exit \in {"spawn_failed", "nonzero", "zero"}, wrote \in BOOLEAN, data \in Buffers :
          LET disk == IF wrote /\ exit # "spawn_failed"
                      THEN FsWrite(req[r].outputPath, data, r) ELSE fs
          IN  /\ fs' = disk
              /\ IF exit = "spawn_failed"
                 THEN req' = [req EXCEPT ![r] =
                          [@ EXCEPT !.pc = "ffmpeg_failed", !.err = "spawn_failed"]]
                 ELSE IF exit = "nonzero"
                 THEN \E errText \in StderrTexts :
                         req' = [req EXCEPT ![r] =
                            [@ EXCEPT !.pc = "ffmpeg_failed", !.eng = "failed",
                                      !.err = "ffmpeg_failed", !.diag = errText,
                                      !.thrown = Slice(errText, StderrKept),
                                      !.log = Append(@, "engine")]]
                 ELSE IF ~wrote
                 THEN req' = [req EXCEPT ![r] =
                          [@ EXCEPT !.pc = "ffmpeg_failed", !.eng = "exited",
                                    !.err = "read_failed", !.log = Append(@, "engine")]]
                 ELSE req' = [req EXCEPT ![r] =
                          [@ EXCEPT !.pc = "respond", !.eng = "exited",
                                    !.buf = data, !.gotBuf = TRUE,
                                    !.log = Append(@, "engine")]]
    /\ UNCHANGED <<handler, serviceUrl, now, uuid, timeVars, rewriteVars, resolveVars>>

\* Lines 251-264: the catch removes both temporary files and answers 500.
EdgeFfmpegFailed(r) ==
    /\ handler = "edge_index"
    /\ req[r].pc = "ffmpeg_failed"
    /\ fs' = FsRemove(FsRemove(fs, req[r].inputPath), req[r].outputPath)
    /\ req' = [req EXCEPT ![r] =
          [@ EXCEPT !.pc = "done",
                    !.resp = FailureReply(500, "ffmpeg_processing_failed",
                                          req[r].thrown)]]
    /\ UNCHANGED <<handler, serviceUrl, now, uuid, timeVars, rewriteVars, resolveVars>>

\* !outputBuffer || outputBuffer.byteLength === 0 (line 271)
EmptyOutputEdge(buf) == Len(buf) = 0

\* Lines 266-288: the input file is removed; an empty buffer ends in 500
\* empty_output, any other is sent with status 200 as video/mp4.
EdgeRespond(r) ==
    /\ handler = "edge_index"
    /\ req[r].pc = "respond"
    /\ fs' = FsRemove(fs, req[r].inputPath)
    /\ IF EmptyOutputEdge(req[r].buf)
       THEN req' = [req EXCEPT ![r] =
                [@ EXCEPT !.pc = "done", !.resp = ErrorReply(500, "empty_output")]]
       ELSE req' = [req EXCEPT ![r] =
                [@ EXCEPT !.pc = "done", !.resp = ClipReply(req[r].buf)]]
    /\ UNCHANGED <<handler, serviceUrl, now, uuid, timeVars, rewriteVars, resolveVars>>

EdgeIndexNext ==
    \E r \in Reqs :
       \/ EdgeReceive(r) \/ EdgeSource(r) \/ EdgeFallback(r) \/ EdgeWriteTemp(r)
       \/ EdgeRemoteGet(r) \/ EdgeRemotePost(r) \/ EdgeNative(r)
       \/ EdgeFfmpegFailed(r) \/ EdgeRespond(r)

(***************************************************************************)
(* The edge handlers that forward to the extraction service: part_002 and  *)
(* the third revision of part_003                                          *)
(***************************************************************************)
\* part_002, lines 42-116: the body is validated, the times are normalized to
\* HH:MM:SS (a throw goes to the outer catch, 500) and the service url is read.
P002Receive(r) ==
    /\ handler = "edge_p002"
    /\ req[r].pc = "idle"
    /\ LET q == req[r]
           normalizedStart == normalizeTime(q.startTime)
           normalizedEnd == normalizeTime(q.endTime)
       IN  IF Falsy(q.vodUrl) \/ q.vodUrl.k # "str"
           THEN req' = [req EXCEPT ![r] =
                    [@ EXCEPT !.pc = "done", !.resp = ErrorReply(400, "vodUrl_required")]]
           ELSE IF IsNullish(q.startTime) \/ IsNullish(q.endTime)
           THEN req' = [req EXCEPT ![r] =
                    [@ EXCEPT !.pc = "done", !.resp = ErrorReply(400, "times_required")]]
           ELSE IF ~IsAbsoluteHttp(q.vodUrl.s)
           THEN req' = [req EXCEPT ![r] =
                    [@ EXCEPT !.pc = "done", !.resp = ErrorReply(400, "not_absolute")]]
           ELSE IF normalizedStart = Throws \/ normalizedEnd = Throws
           THEN req' = [req EXCEPT ![r] =
                    [@ EXCEPT !.pc = "done", !.resp = ErrorReply(500, "invalid_time")]]
           ELSE IF ~serviceUrl
           THEN req' = [req EXCEPT ![r] =
                    [@ EXCEPT !.pc = "done", !.resp = ErrorReply(500, "service_url_not_set")]]
           ELSE req' = [req EXCEPT ![r] =
                    [@ EXCEPT !.pc = "forward", !.seek = normalizedStart,
                              !.duration = normalizedEnd]]
    /\ UNCHANGED <<handler, serviceUrl, now, uuid, fs, timeVars, rewriteVars, resolveVars>>

\* !mp4Buffer || mp4Buffer.byteLength === 0 (part_002, line 160)
EmptyBodyP002(buf) == Len(buf) = 0

\* part_002, lines 125-183: one POST to the service; a throw ends in 500, a
\* non-2xx answer in 502 with its text, an empty body in 502, any other body
\* is returned with status 200 as video/mp4.
P002Forward(r) ==
    /\ handler = "edge_p002"
    /\ req[r].pc = "forward"
    /\ \E post \in {"ok", "notok", "throw"}, data \in Buffers :
          IF post = "throw"
          THEN req' = [req EXCEPT ![r] =
                   [@ EXCEPT !.pc = "done", !.log = Append(@, "delegate_post"),
                             !.resp = ErrorReply(500, "fetch_failed")]]
          ELSE IF post = "notok"
          THEN \E text \in ErrorTexts :
                  req' = [req EXCEPT ![r] =
                     [@ EXCEPT !.pc = "done", !.log = Append(@, "delegate_post"),
                               !.diag = text,
                               !.resp = FailureReply(502, "service_failed", text)]]
          ELSE IF EmptyBodyP002(data)
          THEN req' = [req EXCEPT ![r] =
                   [@ EXCEPT !.pc = "done", !.log = Append(@, "delegate_post"),
                             !.buf = data, !.gotBuf = TRUE,
                             !.resp = ErrorReply(502, "empty_response")]]
          ELSE req' = [req EXCEPT ![r] =
                   [@ EXCEPT !.pc = "done", !.log = Append(@, "delegate_post"),
                             !.buf = data, !.gotBuf = TRUE, !.resp = ClipReply(data)]]
    /\ UNCHANGED <<handler, serviceUrl, now, uuid, fs, timeVars, rewriteVars, resolveVars>>

\* part_003, lines 225-263: vodUrl.startsWith of a value that is no string
\* throws (500); a time that is no string goes through formatTime.
P003Receive(r) ==
    /\ handler = "edge_p003"
    /\ req[r].pc = "idle"
    /\ LET q == req[r]
           formattedStart == IF q.startTime.k = "str" THEN q.startTime
                             ELSE formatTime(q.startTime)
           formattedEnd == IF q.endTime.k = "str" THEN q.endTime
                           ELSE formatTime(q.endTime)
       IN  IF Falsy(q.vodUrl) \/ q.startTime.k = "undefined" \/ q.endTime.k = "undefined"
           THEN req' = [req EXCEPT ![r] =
                    [@ EXCEPT !.pc = "done", !.resp = ErrorReply(400, "missing_fields")]]
           ELSE IF q.vodUrl.k # "str"
           THEN req' = [req EXCEPT ![r] =
                    [@ EXCEPT !.pc = "done", !.resp = ErrorReply(500, "type_error")]]
           ELSE IF ~IsAbsoluteHttp(q.vodUrl.s)
           THEN req' = [req EXCEPT ![r] =
                    [@ EXCEPT !.pc = "done", !.resp = ErrorReply(400, "not_absolute")]]
           ELSE req' = [req EXCEPT ![r] =
                    [@ EXCEPT !.pc = "forward", !.seek = formattedStart,
                              !.duration = formattedEnd]]
    /\ UNCHANGED <<handler, serviceUrl, now, uuid, fs, timeVars, rewriteVars, resolveVars>>

\* mp4Data.byteLength === 0 (part_003, line 305)
EmptyBodyP003(buf) == Len(buf) = 0

\* part_003, lines 274-327: one POST; the MP4 header is logged, not checked.
P003Forward(r) ==
    /\ handler = "edge_p003"
    /\ req[r].pc = "forward"
    /\ \E post \in {"ok", "notok", "throw"}, data \in Buffers :
          IF post = "throw"
          THEN req' = [req EXCEPT ![r] =
                   [@ EXCEPT !.pc = "done", !.log = Append(@, "delegate_post"),
                             !.resp = ErrorReply(500, "fetch_failed")]]
          ELSE IF post = "notok"
          THEN \E text \in ErrorTexts :
                  req' = [req EXCEPT ![r] =
                     [@ EXCEPT !.pc = "done", !.log = Append(@, "delegate_post"),
                               !.diag = text,
                               !.resp = FailureReply(502, "service_failed", text)]]
          ELSE IF EmptyBodyP003(data)
          THEN req' = [req EXCEPT ![r] =
                   [@ EXCEPT !.pc = "done", !.log = Append(@, "delegate_post"),
                             !.buf = data, !.gotBuf = TRUE,
                             !.resp = ErrorReply(500, "empty_response")]]
          ELSE req' = [req EXCEPT ![r] =
                   [@ EXCEPT !.pc = "done", !.log = Append(@, "delegate_post"),
                             !.buf = data, !.gotBuf = TRUE, !.resp = ClipReply(data)]]
    /\ UNCHANGED <<handler, serviceUrl, now, uuid, fs, timeVars, rewriteVars, resolveVars>>

ForwardNext ==
    \E r \in Reqs :
       \/ P002Receive(r) \/ P002Forward(r) \/ P003Receive(r) \/ P003Forward(r)

(***************************************************************************)
(* Specifications of the clip handlers                                     *)
(***************************************************************************)
Handlers == {"railway_v1", "railway_v2", "edge_index", "edge_p002", "edge_p003"}

UrlOk == <<"h", "t", "t", "p", ":", "/", "/", "c", "/", "v">>

UrlUndefined ==
    <<"h", "t", "t", "p", "s", ":", "/", "/", "c", "/",
      "u", "n", "d", "e", "f", "i", "n", "e", "d">>

UrlLocalFile == MntData \o <<"/", "v">>

UrlRelative == <<"/", "v">>

ClipUrls == {Str(UrlOk), Str(UrlUndefined), Str(UrlLocalFile), Str(UrlRelative), Undefined}

\* The (startTime, endTime) pairs a request may carry.
TimePairs ==
    { <<Secs(10), Secs(15)>>, <<Secs(15), Secs(10)>>, <<Secs(10), Secs(10)>>,
      <<Secs(0), Secs(5)>>,
      <<Str(<<"1", "0">>), Str(<<"1", "5">>)>>,
      <<Str(<<"1", "5">>), Str(<<"1", "0">>)>>,
      <<Str(<<"0", ":", "0">>), Str(<<"0", ":", "0", ".", "5">>)>>,
      <<Str(<<"0", "0", ":", "0", "0", ":", "1", "0">>),
        Str(<<"0", "0", ":", "0", "0", ":", "1", "5">>)>>,
      <<Str(<<"x">>), Str(<<"5">>)>>,
      <<Undefined, Secs(5)>> }

\* One request at a time, any handler, any body.
Init ==
    /\ handler \in Handlers
    /\ serviceUrl \in BOOLEAN
    /\ now = 0
    /\ uuid = 0
    /\ fs = {}
    /\ \E u \in ClipUrls, tp \in TimePairs : req = <<NewRequest(u, tp[1], tp[2])>>
    /\ TimeIdle
    /\ RewriteIdle
    /\ ResolveIdle

Next == RailwayNext \/ EdgeIndexNext \/ ForwardNext

Spec == Init /\ [][Next]_vars

\* The extraction service under NReq concurrent requests.
NReq == 2

ConcUrls == {Str(UrlOk), Str(UrlUndefined)}

ConcInit ==
    /\ handler \in {"railway_v1", "railway_v2"}
    /\ serviceUrl = FALSE
    /\ now = 0
    /\ uuid = 0
    /\ fs = {}
    /\ req \in [1..NReq -> {NewRequest(u, Secs(10), Secs(15)) : u \in ConcUrls}]
    /\ TimeIdle
    /\ RewriteIdle
    /\ ResolveIdle

SpecConc == ConcInit /\ [][RailwayNext]_vars

(***************************************************************************)
(* Variant selection of get-vod-stream                                     *)
(***************************************************************************)
ChunkedWord == <<"c", "h", "u", "n", "k", "e", "d">>

VideoChunked ==
    <<"V", "I", "D", "E", "O", "=", "\"">> \o ChunkedWord \o <<"\"">>

\* line.includes("chunked") || line.includes('VIDEO="chunked"')
IsChunkedLine(line) == Includes(line, ChunkedWord) \/ Includes(line, VideoChunked)

\* The url line test that also asks for a leading "http".
IsUrlLineHttpOnly(line) ==
    line # <<>> /\ ~StartsWith(line, <<"#">>) /\ StartsWith(line, <<"h", "t", "t", "p">>)

\* urlLine && !urlLine.startsWith("#")
IsUrlLine(line) == line # <<>> /\ ~StartsWith(line, <<"#">>)

Least(S) == CHOOSE i \in S : \A j \in S : i <= j

\* The inner loop: the first url line after place i, "" when there is none.
NextUrlLine(lines, i) ==
    LET js == {j \in (i + 1)..Len(lines) : IsUrlLine(lines[j])}
    IN  IF js = {} THEN <<>> ELSE lines[Least(js)]

\* get-vod-stream/index.ts, lines 140-155: the outer loop goes on past a
\* chunked line that no url line follows.
ChunkedSearchGvs(lines) ==
    LET is == {i \in 1..Len(lines) :
                  IsChunkedLine(lines[i]) /\ NextUrlLine(lines, i) # <<>>}
    IN  IF is = {} THEN <<>> ELSE NextUrlLine(lines, Least(is))

\* part_000, lines 86-103 and 346-363: the outer loop stops at the first
\* chunked line whatever the inner loop found.
ChunkedSearchP000(lines) ==
    LET is == {i \in 1..Len(lines) : IsChunkedLine(lines[i])}
    IN  IF is = {} THEN <<>> ELSE NextUrlLine(lines, Least(is))

\* The fallback: l && !l.startsWith("#") && l.startsWith("http")
FirstHttpLine(lines) ==
    LET is == {i \in 1..Len(lines) :
                  IsUrlLine(lines[i]) /\ StartsWith(lines[i], <<"h", "t", "t", "p">>)}
    IN  IF is = {} THEN <<>> ELSE lines[Least(is)]

\* playlistText.split("\n") with every line trimmed
TrimmedLines(text) ==
    LET raw == Split(text, "\n") IN [i \in 1..Len(raw) |-> Trim(raw[i])]

\* chunkedUrl after both loops, by revision.
SelectStream(rev, text) ==
    LET lines == TrimmedLines(text)
        found == IF rev = "gvs" THEN ChunkedSearchGvs(lines)
                 ELSE ChunkedSearchP000(lines)
    IN  IF found # <<>> THEN found ELSE FirstHttpLine(lines)

\* A master playlist has at most MaxVariantLines lines.
MaxVariantLines == 4

TagChunked == <<"#">> \o VideoChunked

TagOther == <<"#", "V", "I", "D", "E", "O", "=", "\"", "7", "2", "0", "\"">>

UrlChunkedPath == HttpPrefix \o <<"c", "/">> \o ChunkedWord

UrlPlain == HttpPrefix \o <<"c", "/", "i">>

RelativeVariant ==
    <<"7", "2", "0", "p", "6", "0", "/", "i", "n", "d", "e", "x", ".", "m", "3", "u", "8">>

HttpLike == <<"h", "t", "t", "p", "d", "/", "i">>

VariantLines ==
    {TagChunked, TagOther, UrlChunkedPath, UrlPlain, RelativeVariant, HttpLike, <<>>}

MasterLineSeqs == UNION {[1..n -> VariantLines] : n \in 1..MaxVariantLines}

SelectInit ==
    /\ \E ls \in MasterLineSeqs : pText = Join(ls, "\n")
    /\ pRev = "none"
    /\ pChosen = <<>>
    /\ vs = NoVodRequest
    /\ TimeIdle
    /\ RewriteIdle
    /\ ClipIdle

SelectRun(rev) ==
    /\ pRev = "none"
    /\ pRev' = rev
    /\ pChosen' = SelectStream(rev, pText)
    /\ UNCHANGED <<pText, vs, timeVars, rewriteVars, clipVars>>

SelectGvs == SelectRun("gvs")

SelectP000 == SelectRun("p000")

SelectNext == SelectGvs \/ SelectP000

SpecSelect == SelectInit /\ [][SelectNext]_vars

(***************************************************************************)
(* C12, C13                                                                *)
(***************************************************************************)
\* A tag line that marks the source-quality variant.
IsSourceTag(line) == StartsWith(line, <<"#">>) /\ Includes(line, VideoChunked)

SourceTags(lines) == {i \in 1..Len(lines) : IsSourceTag(lines[i])}

\* C12: when the master playlist holds a tag line marking the source-quality
\* variant, the chosen uri is the first non-blank, non-'#' line after the first
\* such tag line; a line that is no tag line never counts as the marker.
C12_SourceVariantChosen ==
    LET lines == TrimmedLines(pText)
    IN  (pRev # "none" /\ SourceTags(lines) # {}) =>
            LET first == Least(SourceTags(lines))
            IN  NextUrlLine(lines, first) # <<>> =>
                    pChosen = NextUrlLine(lines, first)

\* The first line that is an absolute http(s) uri, "" when there is none.
FirstAbsoluteLine(lines) ==
    LET is == {i \in 1..Len(lines) : IsAbsoluteHttp(lines[i])}
    IN  IF is = {} THEN <<>> ELSE lines[Least(is)]

\* C13: when no tag line marks a source-quality variant, the chosen uri is the
\* first line that is an absolute http:// or https:// uri, and no other line
\* is ever chosen.
C13_FallbackFirstAbsolute ==
    LET lines == TrimmedLines(pText)
    IN  (pRev # "none" /\ SourceTags(lines) = {}) =>
            pChosen = FirstAbsoluteLine(lines)

(***************************************************************************)
(* get-vod-stream: the request pipeline                                    *)
(***************************************************************************)
\* The revisions of the handler: get-vod-stream/index.ts lines 17-223 ("gvs")
\* and 233-348 ("gvs_old"), part_000 lines 9-198 ("p000_legacy") and 208-428
\* ("p000").
VodRevisions == {"gvs", "gvs_old", "p000_legacy", "p000"}

\* jsonResponse({ error }, status)
VodError(status, error) ==
    [status |-> status, streamUrl |-> <<>>, title |-> "none", duration |-> "none",
     error |-> error]

\* jsonResponse({ streamUrl, vodTitle, vodDuration }, 200)
VodSuccess(streamUrl, title, duration) ==
    [status |-> 200, streamUrl |-> streamUrl, title |-> title,
     duration |-> duration, error |-> "none"]

\* `${baseSupabase}/functions/v1/rewrite-m3u8?url=${encoded}`
RewriteEndpoint == <<"r", "w", "?", "u", "r", "l", "=">>

\* `https://vod-secure.twitch.tv/_${vodId}/chunked/index-dvr.m3u8`
ConstructedStreamUrl(vodId) ==
    HttpsPrefix \o <<"v", "/", "_">> \o vodId \o <<"/">> \o ChunkedWord

\* The stream uri each revision returns for chunkedUrl.
StreamUrlOf(rev, chosen) ==
    IF rev = "gvs" THEN RewriteEndpoint \o chosen ELSE chosen

\* The master playlists the edge broker may answer with.
MasterPlaylists ==
    { Join(<<TagChunked, UrlPlain>>, "\n"),
      Join(<<TagChunked, RelativeVariant>>, "\n"),
      Join(<<TagOther, UrlPlain>>, "\n"),
      Join(<<TagOther, RelativeVariant>>, "\n"),
      Join(<<HttpLike>>, "\n"),
      Join(<<TagOther>>, "\n") }

\* One field of a token response: present or missing.
TokenFields == {<<>>, <<"v">>}

\* A response sent without leaving the handler: the return is missing.
VsEndNoReturn(reply) == vs' = [vs EXCEPT !.resp = reply]

VsEnd(reply) == vs' = [vs EXCEPT !.pc = "done", !.resp = reply]

VsCall(what, pc) ==
    vs' = [vs EXCEPT !.pc = pc, !.calls = Append(@, what)]

ResolveInit ==
    /\ \E id \in {<<>>, <<"1">>}, sec \in BOOLEAN :
          vs = [NoVodRequest EXCEPT !.pc = "idle", !.vodId = id, !.secret = sec]
    /\ pText = <<>> /\ pRev = "none" /\ pChosen = <<>>
    /\ TimeIdle
    /\ RewriteIdle
    /\ ClipIdle

\* The request arrives: vodId and the credentials are checked and the first
\* upstream call is issued (index.ts 22-56, 238-271; part_000 14-44, 213-254).
VsReceive(rev) ==
    /\ vs.pc = "idle"
    /\ IF vs.vodId = <<>>
       THEN vs' = [vs EXCEPT !.rev = rev, !.pc = "done",
                             !.resp = VodError(400, "vod_id_required")]
       ELSE IF rev # "p000_legacy" /\ ~vs.secret
       THEN vs' = [vs EXCEPT !.rev = rev, !.pc = "done",
                             !.resp = VodError(500, "credentials")]
       ELSE IF rev = "p000_legacy"
       THEN vs' = [vs EXCEPT !.rev = rev, !.pc = "token",
                             !.calls = Append(@, "legacy_token")]
       ELSE vs' = [vs EXCEPT !.rev = rev, !.pc = "oauth",
                             !.calls = Append(@, "oauth")]
    /\ UNCHANGED <<pText, pRev, pChosen, timeVars, rewriteVars, clipVars>>

\* The identity endpoint answers (index.ts 58-68, 273-282; part_000 256-265).
\* "notoken" is a JSON body without access_token, "unparsable" no JSON.
VsOauth ==
    /\ vs.pc = "oauth"
    /\ \E got \in {"ok", "notoken", "unparsable", "notok", "throw"} :
          IF got \in {"notok", "throw", "unparsable"}
          THEN VsEnd(VodError(500, "oauth"))
          ELSE IF got = "notoken" /\ vs.rev = "gvs"
          THEN VsEnd(VodError(500, "invalid_oauth"))
          ELSE IF vs.rev = "gvs_old"
          THEN VsCall("helix", "meta_old")
          ELSE VsCall("gql", "gql")
    /\ UNCHANGED <<pText, pRev, pChosen, timeVars, rewriteVars, clipVars>>

\* The playback-authorization service answers (index.ts 102-127; part_000
\* 297-329): a token without value or signature is refused, otherwise the
\* signed playlist request is issued.
VsGql ==
    /\ vs.pc = "gql"
    /\ \E got \in {"ok", "unparsable", "notok", "throw"},
          value \in TokenFields, sig \in TokenFields :
          IF got # "ok"
          THEN VsEnd(VodError(500, "playback_token"))
          ELSE IF value = <<>> \/ sig = <<>>
          THEN VsEnd(VodError(500, "invalid_playback_token"))
          ELSE vs' = [vs EXCEPT !.pc = "usher", !.tokenValue = value,
                                !.tokenSig = sig, !.calls = Append(@, "usher")]
    /\ UNCHANGED <<pText, pRev, pChosen, timeVars, rewriteVars, clipVars>>

\* part_000, lines 46-69: the legacy access_token endpoint answers; token and
\* sig are read from the body and used without any check.
VsLegacyToken ==
    /\ vs.pc = "token"
    /\ \E got \in {"ok", "unparsable", "notok", "throw"},
          value \in TokenFields, sig \in TokenFields :
          IF got # "ok"
          THEN VsEnd(VodError(500, "access_token"))
          ELSE vs' = [vs EXCEPT !.pc = "usher", !.tokenValue = value,
                                !.tokenSig = sig, !.calls = Append(@, "usher")]
    /\ UNCHANGED <<pText, pRev, pChosen, timeVars, rewriteVars, clipVars>>

\* The edge broker answers the playlist request (index.ts 129-184; part_000
\* 71-141, 331-396): the variant is selected; only index.ts refuses a uri
\* that is not absolute.  Then the metadata lookup starts.
VsUsher ==
    /\ vs.pc = "usher"
    /\ \E got \in {"ok", "notok", "throw"}, text \in MasterPlaylists :
          LET chosen == SelectStream(vs.rev, text)
              picked == [vs EXCEPT !.playlist = text, !.chosen = chosen]
          IN  IF got # "ok"
              THEN VsEnd(VodError(500, "playlist"))
              ELSE IF chosen = <<>>
              THEN vs' = [picked EXCEPT !.pc = "done",
                                        !.resp = VodError(500, "no_stream_url")]
              ELSE IF vs.rev = "gvs" /\ ~IsAbsoluteHttp(chosen)
              THEN vs' = [picked EXCEPT !.pc = "done",
                                        !.resp = VodError(500, "not_absolute")]
              ELSE IF vs.rev = "p000_legacy" /\ ~vs.secret
              THEN vs' = [picked EXCEPT !.pc = "done",
                            !.resp = VodSuccess(chosen, "Unknown", "Unknown")]
              ELSE IF vs.rev = "p000_legacy"
              THEN vs' = [picked EXCEPT !.pc = "oauth_meta",
                                        !.calls = Append(@, "oauth")]
              ELSE vs' = [picked EXCEPT !.pc = "meta",
                                        !.calls = Append(@, "helix")]
    /\ UNCHANGED <<pText, pRev, pChosen, timeVars, rewriteVars, clipVars>>

\* part_000, lines 144-189: the identity endpoint answers the token request
\* made for the metadata; a non-2xx answer is skipped, a throw is not caught.
VsOauthMeta ==
    /\ vs.pc = "oauth_meta"
    /\ \E got \in {"ok", "unparsable", "notok", "throw"} :
          IF got \in {"throw", "unparsable"}
          THEN VsEnd(VodError(500, "unexpected"))
          ELSE IF got = "notok"
          THEN VsEnd(VodSuccess(vs.chosen, "Unknown", "Unknown"))
          ELSE VsCall("helix", "meta")
    /\ UNCHANGED <<pText, pRev, pChosen, timeVars, rewriteVars, clipVars>>

\* What the metadata source may answer: a data list with the video, an empty
\* data list, a body that is no JSON, a non-2xx status, or the fetch throws.
MetaAnswers == {"data", "empty", "unparsable", "notok", "throw"}

\* The metadata source answers (index.ts 186-217, in its own try; part_000
\* 158-189 and 391-420, in the handler's try only).
VsMeta ==
    /\ vs.pc = "meta"
    /\ \E got \in MetaAnswers :
          LET url == StreamUrlOf(vs.rev, vs.chosen)
          IN  IF got = "data"
              THEN VsEnd(VodSuccess(url, "title", "duration"))
              ELSE IF vs.rev # "gvs" /\ got \in {"unparsable", "throw"}
              THEN VsEnd(VodError(500, "unexpected"))
              ELSE VsEnd(VodSuccess(url, "Unknown", "Unknown"))
    /\ UNCHANGED <<pText, pRev, pChosen, timeVars, rewriteVars, clipVars>>

\* index.ts, lines 294-320: the older revision looks the video up first; any
\* failure of the lookup ends the request, then the stream url is built from
\* the vod id and probed.
VsMetaOld ==
    /\ vs.pc = "meta_old"
    /\ \E got \in MetaAnswers :
          IF got \in {"notok", "throw", "unparsable"}
          THEN VsEnd(VodError(500, "vod_fetch"))
          ELSE IF got = "empty"
          THEN VsEnd(VodError(404, "vod_not_found"))
          ELSE vs' = [vs EXCEPT !.pc = "probe",
                                !.chosen = ConstructedStreamUrl(vs.vodId),
                                !.calls = Append(@, "probe")]
    /\ UNCHANGED <<pText, pRev, pChosen, timeVars, rewriteVars, clipVars>>

\* index.ts, lines 320-339: the probe's status is only logged.
VsProbe ==
    /\ vs.pc = "probe"
    /\ \E got \in {"ok", "notok", "throw"} :
          IF got = "throw"
          THEN VsEnd(VodError(500, "unexpected"))
          ELSE VsEnd(VodSuccess(vs.chosen, "title", "duration"))
    /\ UNCHANGED <<pText, pRev, pChosen, timeVars, rewriteVars, clipVars>>

ResolveNext ==
    \/ \E rev \in VodRevisions : VsReceive(rev)
    \/ VsOauth
    \/ VsGql
    \/ VsLegacyToken
    \/ VsUsher
    \/ VsOauthMeta
    \/ VsMeta
    \/ VsMetaOld
    \/ VsProbe

SpecResolve == ResolveInit /\ [][ResolveNext]_vars

(***************************************************************************)
(* C1                                                                      *)
(***************************************************************************)
\* The source locator is an absolute http:// or https:// url.
AbsoluteLocator(v) == v.k = "str" /\ IsAbsoluteHttp(v.s)

\* The calls C1 rules out before a rejection.
SourceOrEngineCalls ==
    {"fetch", "readFile", "writeTemp", "engine", "delegate_get", "delegate_post"}

\* C1: a request whose source locator does not start with http:// or https://
\* is rejected with an error, and no network fetch, local file read,
\* temporary-file write or engine/delegate call is made for it.
C1_NonAbsoluteRejectedFirst ==
    \A r \in Reqs :
        (req[r].pc # "idle" /\ ~AbsoluteLocator(req[r].vodUrl)) =>
            /\ \A c \in SourceOrEngineCalls : ~Logged(r, c)
            /\ Ended(r) => req[r].resp.status >= 400

(***************************************************************************)
(* C2                                                                      *)
(***************************************************************************)
Railway == handler \in {"railway_v1", "railway_v2"}

\* C2: once a /clip request has ended, no temporary file created for it exists
\* on disk, and none is created for it afterwards.
C2_NoTempFileAfterEnd ==
    Railway => \A r \in Reqs : Ended(r) => \A f \in fs : f.by # r

(***************************************************************************)
(* C3                                                                      *)
(***************************************************************************)
\* C3: after a request to the process-clip edge handler has ended, neither its
\* input temp file nor its -out.mp4 output temp file remains on disk.
C3_EdgeTempFilesRemoved ==
    handler = "edge_index" =>
        \A r \in Reqs : Ended(r) =>
            /\ ~FileExists(req[r].inputPath)
            /\ ~FileExists(req[r].outputPath)

(***************************************************************************)
(* C4                                                                      *)
(***************************************************************************)
\* The request has allocated its paths and has not ended.
InFlight(r) == req[r].pc \notin {"idle", "done"}

TempPaths(r) == {req[r].inputPath, req[r].outputPath} \ {NoPath}

\* C4: two /clip requests in flight at the same time never hold the same
\* temporary file path.
C4_DistinctTempPaths ==
    Railway =>
        \A r1, r2 \in Reqs :
            (r1 # r2 /\ InFlight(r1) /\ InFlight(r2)) =>
                TempPaths(r1) \cap TempPaths(r2) = {}

(***************************************************************************)
(* C5                                                                      *)
(***************************************************************************)
\* C5: a success response (200, video/mp4) is sent only when the bytes at
\* offsets 4-7 or 8-11 of the buffer spell ftyp.
C5_SuccessHasSignature ==
    \A r \in Reqs :
        (req[r].resp.status = 200 /\ req[r].resp.mp4) => isFtyp(req[r].resp.data)

(***************************************************************************)
(* C6                                                                      *)
(***************************************************************************)
\* The engine output or the delegate's body came back with length 0.
GotEmptyResult(r) == req[r].gotBuf /\ Len(req[r].buf) = 0

EngineStarted(r) == req[r].eng # "none"

\* C7: in /clip, with s and e the normalized start and end: when e <= s the
\* request is rejected with 400 and the engine is never started; when e > s
\* the engine is started with seek s and duration exactly e - s.
C7_RangeEnforced ==
    Railway =>
        \A r \in Reqs :
            LET s == req[r].startSeconds
                e == req[r].endSeconds
            IN  /\ EngineStarted(r) =>
                      /\ s.k = "num" /\ e.k = "num" /\ e.x > s.x
                      /\ req[r].seek = s
                      /\ req[r].duration = Minus(e, s)
                /\ (Ended(r) /\ Leq(e, s)) =>
                      /\ req[r].resp.status = 400
                      /\ ~EngineStarted(r)

(***************************************************************************)
(* C11                                                                     *)
(***************************************************************************)
\* C11: a rewrite request whose url parameter is not an absolute http:// or
\* https:// url is rejected with a client error (4xx) and the url is never
\* handed to fetch; only absolute http(s) urls are fetched.
C11_RewriteRejectsNonAbsolute ==
    /\ (mPass1 # NoResponse /\ ~IsAbsoluteHttp(mUri)) =>
          /\ mPass1.status >= 400 /\ mPass1.status < 500
          /\ mFetchCalls = <<>>
    /\ \A i \in 1..Len(mFetchCalls) : IsAbsoluteHttp(mFetchCalls[i])

(***************************************************************************)
(* C14                                                                     *)
(***************************************************************************)
VsCalled(what) == \E i \in 1..Len(vs.calls) : vs.calls[i] = what

\* The request ended after the edge broker delivered a master playlist.
VsEndedWithPlaylist == vs.pc = "done" /\ vs.playlist # <<>>

\* C14: no success response carries a stream uri taken from a relative variant
\* line: when the selected line does not start with http:// or https:// the
\* request fails, and when no candidate line exists it fails.
C14_NoRelativeStreamUri ==
    VsEndedWithPlaylist =>
        /\ vs.resp.status = 200 => IsAbsoluteHttp(vs.chosen)
        /\ ~IsAbsoluteHttp(vs.chosen) => vs.resp.status >= 400

(***************************************************************************)
(* C15                                                                     *)
(***************************************************************************)
\* The master manifest of the example: the VIDEO="chunked" tag line followed
\* by the relative line 720p60/index.m3u8.
ExampleManifest == Join(<<TagChunked, RelativeVariant>>, "\n")

\* C15 as stated: for the example manifest the resolution succeeds and yields
\* a stream uri that ends with 720p60/index.m3u8.
C15_RelativeVariantSucceeds ==
    vs.playlist = ExampleManifest =>
        /\ vs.chosen = RelativeVariant
        /\ vs.resp.error \notin {"not_absolute", "no_stream_url"}
        /\ vs.resp.status = 200 => EndsWith(vs.resp.streamUrl, RelativeVariant)

\* C15 as the code has it: for the example manifest the selection picks the
\* line 720p60/index.m3u8 in every revision, and get-vod-stream/index.ts then
\* refuses it with status 500 because it is not absolute, without any
\* further upstream call.
C15_RelativeVariantSelectedThenRefused ==
    vs.playlist = ExampleManifest =>
        /\ vs.chosen = RelativeVariant
        /\ vs.rev = "gvs" =>
              /\ vs.pc = "done"
              /\ vs.resp = VodError(500, "not_absolute")
              /\ ~VsCalled("helix")

\* index.ts has selected the relative line of the example and refused it.
C15_Witness ==
    /\ vs.rev = "gvs" /\ vs.playlist = ExampleManifest
    /\ vs.chosen = RelativeVariant /\ vs.resp.status = 500

(***************************************************************************)
(* C16                                                                     *)
(***************************************************************************)
\* C16: the signed manifest request is issued only when the playback-token
\* response held both a non-empty value and a non-empty signature; when either
\* is missing the request fails and no manifest fetch is made.
C16_SignedFetchNeedsBothFields ==
    VsCalled("usher") => (vs.tokenValue # <<>> /\ vs.tokenSig # <<>>)

(***************************************************************************)
(* C17                                                                     *)
(***************************************************************************)
\* Token acquisition and manifest resolution succeeded and the metadata
\* lookup was started.
VsMetadataStarted ==
    /\ vs.rev \in {"gvs", "p000", "p000_legacy"}
    /\ vs.chosen # <<>>
    /\ VsCalled("helix") \/ (vs.rev = "p000_legacy" /\ VsCalled("oauth"))

\* C17: once token acquisition and manifest resolution have succeeded the
\* request ends in success with the stream uri whatever the metadata lookup
\* does; title and duration are the metadata's or "Unknown".
C17_MetadataBestEffort ==
    (vs.pc = "done" /\ VsMetadataStarted) =>
        /\ vs.resp.status = 200
        /\ vs.resp.streamUrl = StreamUrlOf(vs.rev, vs.chosen)
        /\ vs.resp.title \in {"title", "Unknown"}
        /\ vs.resp.duration \in {"duration", "Unknown"}

(***************************************************************************)
(* C18                                                                     *)
(***************************************************************************)
\* One request at a time, served by get-vod-stream or by a clip handler.
PipelineInit == ResolveInit \/ Init

PipelineNext == ResolveNext \/ Next

SpecPipeline == PipelineInit /\ [][PipelineNext]_vars

\* Pending 0, Resolving(token) 1, Resolving(manifest) 2, the metadata lookup 3,
\* terminal 4.
VsStage(v) ==
    CASE v.pc \in {"none", "idle"} -> 0
      [] v.pc \in {"oauth", "gql", "token"} -> 1
      [] v.pc = "usher" -> 2
      [] v.pc \in {"meta", "oauth_meta", "meta_old", "probe"} -> 3
      [] OTHER -> 4

\* Pending 0, the steps of Extracting 1 to 6 in program order, terminal 7.
ReqStage(q) ==
    CASE q.pc = "idle" -> 0
      [] q.pc \in {"mkdir", "source"} -> 1
      [] q.pc = "fallback" -> 2
      [] q.pc \in {"downloaded", "have_input", "forward"} -> 3
      [] q.pc \in {"run", "ffmpeg", "posting"} -> 4
      [] q.pc \in {"read", "ffmpeg_failed"} -> 5
      [] q.pc \in {"cleanup", "catch", "respond"} -> 6
      [] OTHER -> 7

\* A terminal state is Succeeded or Failed, never both and never neither.
TerminalIsOneOutcome ==
    /\ vs.pc = "done" => (vs.resp.status = 200 \/ vs.resp.status >= 400)
    /\ vs.pc # "done" => vs.resp = NoVodReply
    /\ \A r \in Reqs :
          /\ Ended(r) => (req[r].resp.status = 200 \/ req[r].resp.status >= 400)
          /\ ~Ended(r) => req[r].resp = NoReply

\* One step of a request: forward only, and nothing after the response.
ForwardStep ==
    /\ VsStage(vs') >= VsStage(vs)
    /\ vs.pc = "done" => vs' = vs
    /\ \A r \in Reqs :
          /\ ReqStage(req'[r]) >= ReqStage(req[r])
          /\ Ended(r) =>
                /\ req'[r].pc = "done"
                /\ req'[r].resp = req[r].resp
                /\ req'[r].log = req[r].log

\* C18: every request moves only forward through its stages and ends in
\* exactly one of Succeeded or Failed; after a stage failed no later upstream
\* call is made, and nothing leaves a terminal state (one response per request).
C18_ForwardOnlyOneResponse == []TerminalIsOneOutcome /\ [][ForwardStep]_vars

\* The playback-token stage failed after the identity endpoint had answered:
\* the request ended in failure with no manifest call.
C18_Witness ==
    /\ vs.pc = "done" /\ vs.resp.status = 500
    /\ vs.calls = <<"oauth", "gql">>

(***************************************************************************)
(* C19                                                                     *)
(***************************************************************************)
\* C19: when obtaining the source fails the request ends in a failure
\* response; no success response carries a clip cut from another source.
C19_NoClipFromOtherSource ==
    \A r \in Reqs :
        req[r].source = "fallback" =>
            /\ req[r].resp.status # 200
            /\ Ended(r) => req[r].resp.status >= 400

(***************************************************************************)
(* C20                                                                     *)
(***************************************************************************)
\* The steps a handler takes by itself, and the calls it bounds with a timer
\* (fetchWithTimeout): the runtime runs them to their end.  The answers to a
\* plain fetch are left to the upstream.
HandlerSteps ==
    \/ \E rev \in VodRevisions : VsReceive(rev)
    \/ \E r \in Reqs :
          \/ EdgeReceive(r) \/ EdgeSource(r) \/ EdgeFallback(r) \/ EdgeWriteTemp(r)
          \/ EdgeRemoteGet(r) \/ EdgeFfmpegFailed(r) \/ EdgeRespond(r)
          \/ P002Receive(r) \/ P003Receive(r)

SpecLive == PipelineInit /\ [][PipelineNext]_vars /\ WF_vars(HandlerSteps)

\* A get-vod-stream request, or a clip request served by a handler that
\* delegates to the extraction service.
DelegatingRequest ==
    \/ vs.pc = "idle"
    \/ handler \in {"edge_p002", "edge_p003"}
    \/ handler = "edge_index" /\ serviceUrl

RequestAnswered == vs.pc = "done" \/ \E r \in Reqs : Ended(r)

\* C20: every such request eventually ends in a response, even when an
\* upstream never answers.
C20_AlwaysAnswered == DelegatingRequest => <>RequestAnswered

(***************************************************************************)
(* C21                                                                     *)
(***************************************************************************)
\* The steps of the handlers that run the engine themselves.  The engine's
\* events and its exit are left to the engine: no timer bounds them.
LocalSteps ==
    \E r \in Reqs :
       \/ ClipReceiveV1(r) \/ ClipDownloadV1(r)
       \/ ClipReceiveV2(r)
       \/ ClipRead(r) \/ ClipFinish(r) \/ ClipCatch(r)
       \/ EdgeReceive(r) \/ EdgeSource(r) \/ EdgeFallback(r) \/ EdgeWriteTemp(r)
       \/ EdgeFfmpegFailed(r) \/ EdgeRespond(r)

\* ClipSpawnV1 and ClipSpawnV2 are enabled exactly at these positions and
\* always leave them: their weak fairness is stated on the position.
SpawnDue ==
    \E r \in Reqs :
       \/ handler = "railway_v1" /\ req[r].pc = "downloaded"
       \/ handler = "railway_v2" /\ req[r].pc = "mkdir"

SpecLocalLive ==
    Init /\ [][Next]_vars /\ WF_vars(LocalSteps) /\ []<>~SpawnDue

\* The request is served with the local-process strategy.
LocalRequest ==
    \/ handler \in {"railway_v1", "railway_v2"}
    \/ handler = "edge_index" /\ ~serviceUrl

\* C21: every local extraction eventually ends, even when the engine
\* subprocess never exits: it is stopped after a timeout and the request fails.
C21_LocalExtractionEnds == LocalRequest => <>(\E r \in Reqs : Ended(r))

(***************************************************************************)
(* C22                                                                     *)
(***************************************************************************)
\* A time of the body cannot be normalized, or the normalized end is not
\* after the normalized start.
BadTimes(q) ==
    LET s == normalizeTime(q.startTime)
        e == normalizeTime(q.endTime)
    IN  \/ s = Throws
        \/ e = Throws
        \/ Leq(parseTimeToSeconds(e), parseTimeToSeconds(s))

ClientError(resp) == resp.status \in 400..499

\* C22: a request whose start or end time cannot be normalized, or whose end
\* is not after its start, ends in a 4xx response, never in a 5xx one.
C22_BadTimesAreClientErrors ==
    \A r \in Reqs : Ended(r) /\ BadTimes(req[r]) => ClientError(req[r].resp)

(***************************************************************************)
(* C23                                                                     *)
(***************************************************************************)
\* The UI's normalizeSeconds (part_011, lines 36-39): a falsy value, a value
\* that is no number and NaN give 0; a number is floored and clamped at 0.
normalizeSeconds(value) ==
    IF Falsy(value) \/ value.k # "num" THEN Num(0)
    ELSE IF Negative(Floor(value)) THEN Num(0) ELSE Floor(value)

\* The three call sites applied to a time value, and the two edge functions
\* followed by the service's parser.
NormalizeTimeEdge ==
    /\ tResult = Pending
    /\ tResult' = normalizeTime(tInput)
    /\ tRev' = "edge"
    /\ UNCHANGED <<tInput, rewriteVars, clipVars, resolveVars>>

NormalizeSecondsUi ==
    /\ tResult = Pending
    /\ tResult' = normalizeSeconds(tInput)
    /\ tRev' = "ui"
    /\ UNCHANGED <<tInput, rewriteVars, clipVars, resolveVars>>

RoundTripP002 ==
    /\ tResult = Pending
    /\ normalizeTime(tInput) # Throws
    /\ tResult' = parseTimeToSeconds(normalizeTime(tInput))
    /\ tRev' = "edge_service"
    /\ UNCHANGED <<tInput, rewriteVars, clipVars, resolveVars>>

RoundTripP003 ==
    /\ tResult = Pending
    /\ tInput.k # "undefined"
    /\ tResult' = parseTimeToSeconds(IF tInput.k = "str" THEN tInput
                                     ELSE formatTime(tInput))
    /\ tRev' = "p003_service"
    /\ UNCHANGED <<tInput, rewriteVars, clipVars, resolveVars>>

PolicyNext ==
    \/ ParseTimeV2
    \/ NormalizeTimeEdge
    \/ NormalizeSecondsUi
    \/ RoundTripP002
    \/ RoundTripP003

SpecPolicy == TimeInit /\ [][PolicyNext]_vars

\* The call site rejects the value with an error.
Rejects(site, value) ==
    CASE site = "edge" -> normalizeTime(value) = Throws
      [] site = "v2" -> parseTimeToSeconds(value) = Throws
      [] site = "ui" -> normalizeSeconds(value) = Throws

\* C23: a time value that one call site (edge normalizeTime, service
\* parseTimeToSeconds, UI normalizeSeconds) rejects with an error is rejected
\* by the other two as well.
C23_OnePolicy ==
    tRev \in {"edge", "v2", "ui"} /\ tResult = Throws
        => \A site \in {"edge", "v2", "ui"} : Rejects(site, tInput)

(***************************************************************************)
(* C29                                                                     *)
(***************************************************************************)
\* max(0, floor(n))
FlooredAndClamped(n) == IF Negative(Floor(n)) THEN Num(0) ELSE Floor(n)

\* C29: for a finite number n given as a time, the service's parser applied
\* to the edge handler's HH:MM:SS string gives max(0, floor(n)).
C29_RoundTrip ==
    tRev \in {"edge_service", "p003_service"} /\ tInput.k = "num"
        => tResult = FlooredAndClamped(tInput)

(***************************************************************************)
(* C24                                                                     *)
(***************************************************************************)
\* The calls made after the first call to the endpoint.
CallsAfter(endpoint) ==
    { i \in 1..Len(vs.calls) :
        \E j \in 1..(i - 1) : vs.calls[j] = endpoint }

\* C24: a request received without the client secret makes no upstream call
\* and does not succeed; a request that failed at the token exchange made no
\* call after it.
C24_NoCallWithoutCredentials ==
    /\ (vs.rev # "none" /\ ~vs.secret)
          => vs.calls = <<>> /\ (vs.pc = "done" => vs.resp.status # 200)
    /\ (vs.pc = "done" /\ vs.resp.error = "oauth") => CallsAfter("oauth") = {}

(***************************************************************************)
(* C25                                                                     *)
(***************************************************************************)
\* How many of the calls in the log went to one of the endpoints.
Contacts(log, endpoints) == Cardinality({ i \in 1..Len(log) : log[i] \in endpoints })

ExtractionService == {"delegate_get", "delegate_post"}

ResolveEndpoints == {"oauth", "gql", "usher", "helix", "legacy_token", "probe"}

\* C25: within one request each upstream endpoint is contacted at most once,
\* and the extraction service receives one request, the POST, and no other.
C25_NoRetries ==
    /\ \A e \in ResolveEndpoints : Contacts(vs.calls, {e}) <= 1
    /\ \A r \in Reqs :
          /\ Contacts(req[r].log, ExtractionService) <= 1
          /\ Contacts(req[r].log, {"delegate_get"}) = 0

(***************************************************************************)
(* C26                                                                     *)
(***************************************************************************)
EdgeHandlers == {"edge_index", "edge_p002", "edge_p003"}

\* C26: an edge handler sends the POST to the extraction service only for a
\* request whose times normalize and whose end is after its start.
C26_PostOnlyForValidRange ==
    \A r \in Reqs :
       handler \in EdgeHandlers /\ Logged(r, "delegate_post") => ~BadTimes(req[r])

(***************************************************************************)
(* C27                                                                     *)
(***************************************************************************)
\* The engine's error, or the delegate's answer that is not 2xx, reached the
\* handler while it was waiting for it.
FailureReported(q) ==
    /\ q.diag # <<>>
    /\ Railway => q.err = "ffmpeg_failed"

\* C27: when the engine reports an error or the delegate answers non-2xx, the
\* request ends in a failure response that holds the whole diagnostic text.
C27_DiagnosticCarried ==
    \A r \in Reqs :
       Ended(r) /\ FailureReported(req[r])
          => /\ req[r].resp.status \notin 200..299
             /\ Includes(req[r].resp.details, req[r].diag)

(***************************************************************************)
(* C28                                                                     *)
(***************************************************************************)
\* C28: whenever the engine has been started for a /clip request of the
\* second revision, its seek position is an integer >= 0 and its duration is
\* an integer >= 1 that equals the parsed end minus the parsed start.
C28_EngineArguments ==
    handler = "railway_v2" =>
        \A r \in Reqs :
            EngineStarted(r) =>
                /\ IsInteger(req[r].seek) /\ req[r].seek.x >= 0
                /\ IsInteger(req[r].duration) /\ req[r].duration.x >= 10
                /\ req[r].duration = Minus(req[r].endSeconds, req[r].startSeconds)

(***************************************************************************)
(* C30                                                                     *)
(***************************************************************************)
\* C30: requests are isolated: a file at a temporary path of a request in
\* flight was written by the work of that request, never by another's.
C30_TempFilesOwned ==
    \A r \in Reqs :
       InFlight(r) => \A f \in fs : f.path \in TempPaths(r) => f.by = r

====
